---- MODULE Spec2Model ----
(***************************************************************************)
(* Model of the rit subcommand launcher (src/launcher/lib.rs).             *)
(*                                                                         *)
(* A launcher is a tree of RitLauncher implementations.  One behaviour of  *)
(* the model is one dispatch: a launcher has been constructed (Init), and  *)
(* one call of launch(name, args) is made on it.  The call is evaluated    *)
(* the way the code evaluates it; every dynamic dispatch through the       *)
(* RitLauncher trait and every process spawn is recorded in `log`.         *)
(***************************************************************************)
EXTENDS Naturals, Sequences, FiniteSets, TLC

VARIABLES
    launcher,   \* the launcher tree the call is made on
    pc,         \* "ready" before the call, "done" after it
    req,        \* the (name, args) the caller passed
    result,     \* what the call produced: Ok, Err(e) or a panic
    log         \* dispatches, returns and process spawns, in program order

vars == <<launcher, pc, req, result, log>>

----------------------------------------------------------------------------
(* Bounds of the model *)

MaxLaunchers == 3      \* longest launcher list of a FallbackLauncher
MaxBlacklist == 2      \* longest blacklist of a BlacklistLauncher
MaxArgs == 1           \* longest argument list of a call
MaxExitCode == 1       \* largest exit code a child process returns

SeqsUpTo(S, n) == UNION {[1..k -> S] : k \in 0..n}

Names == {"help", "Help", "status", "this-shouldnt-exist"}

ArgValues == {"-v"}

ArgLists == SeqsUpTo(ArgValues, MaxArgs)

CmdNames == {"git", "true"}

----------------------------------------------------------------------------
(* Values *)

None == <<>>

Some(x) == <<x>>

\* process::ExitStatus: the child exited with a code, or a signal ended it
Exited(c) == [signaled |-> FALSE, n |-> c]

Signaled(s) == [signaled |-> TRUE, n |-> s]

code(status) == IF status.signaled THEN None ELSE Some(status.n)

ExitStatuses == {Exited(c) : c \in 0..MaxExitCode} \cup {Signaled(9)}

\* io::Result<ExitStatus> of Command::status()
IoErrorKinds == {"NotFound", "PermissionDenied"}

SpawnOutcomes ==
    {[ok |-> TRUE, status |-> s] : s \in ExitStatuses}
        \cup {[ok |-> FALSE, kind |-> k] : k \in IoErrorKinds}

\* enum LaunchFailed, TestingErrors and the io::Error that is passed through
NotFound(name) == [variant |-> "NotFound", name |-> name]

Blacklisted(name) == [variant |-> "Blacklisted", name |-> name]

BadExitCode(name, status) ==
    [variant |-> "BadExitCode", name |-> name, status |-> status]

IoError(kind) == [variant |-> "io::Error", kind |-> kind]

DummyError == [variant |-> "DummyError"]

\* Result<(), Box<dyn Error>>, and the unwinding of a panic
Ok == [tag |-> "Ok"]

Err(e) == [tag |-> "Err", err |-> e]

Panic(msg) == [tag |-> "Panic", msg |-> msg]

NoResult == [tag |-> "None"]

----------------------------------------------------------------------------
(* The launcher structs *)

ProcLauncher(cmd_name) == [kind |-> "Proc", cmd_name |-> cmd_name]

LibLauncher == [kind |-> "Lib"]

BlacklistLauncher(l, blacklist) ==
    [kind |-> "Blacklist", launcher |-> l, blacklist |-> blacklist]

FallbackLauncher(launchers) == [kind |-> "Fallback", launchers |-> launchers]

DummyLauncher(always) == [kind |-> "Dummy", always |-> always]

----------------------------------------------------------------------------
(* launch.  `st` is the state a call threads through: the log so far and   *)
(* the outcomes the operating system will give to the spawns still to      *)
(* come.  `path` locates `self` in the launcher tree (<<>> is the root,    *)
(* p \o <<i>> the i-th launcher owned by the launcher at p).               *)

RECURSIVE launch(_, _, _, _, _)

\* variant: a child ended by a signal counts as a success
ProcLauncher_launch_signal_ok(self, path, name, args, st) ==
    LET out == Head(st.os)
        spawned == [ev |-> "spawn", path |-> path, cmd |-> self.cmd_name,
                    argv |-> <<name>> \o args, out |-> out]
        st1 == [os |-> Tail(st.os), log |-> Append(st.log, spawned)]
    IN  IF out.ok
        THEN IF code(out.status) \in {None, Some(0)}
             THEN [res |-> Ok, st |-> st1]
             ELSE [res |-> Err(BadExitCode(name, out.status)), st |-> st1]
        ELSE IF out.kind = "NotFound"
             THEN [res |-> Err(NotFound(name)), st |-> st1]
             ELSE [res |-> Err(IoError(out.kind)), st |-> st1]

ProcLauncher_launch(self, path, name, args, st) ==
    LET out == Head(st.os)
        spawned == [ev |-> "spawn", path |-> path, cmd |-> self.cmd_name,
                    argv |-> <<name>> \o args, out |-> out]
        st1 == [os |-> Tail(st.os), log |-> Append(st.log, spawned)]
    IN  IF out.ok
        THEN IF code(out.status) = Some(0)
             THEN [res |-> Ok, st |-> st1]
             ELSE [res |-> Err(BadExitCode(name, out.status)), st |-> st1]
        ELSE IF out.kind = "NotFound"
             THEN [res |-> Err(NotFound(name)), st |-> st1]
             ELSE [res |-> Err(IoError(out.kind)), st |-> st1]

\* variant: a name without an implementation is an error
LibLauncher_launch_unknown_fails(self, path, name, args, st) ==
    IF name = "this-shouldnt-exist"
    THEN [res |-> Err(NotFound(name)), st |-> st]
    ELSE [res |-> Ok, st |-> st]

LibLauncher_launch(self, path, name, args, st) == [res |-> Ok, st |-> st]

DummyLauncher_launch(self, path, name, args, st) ==
    IF self.always = "Succeed"
    THEN [res |-> Ok, st |-> st]
    ELSE [res |-> Err(DummyError), st |-> st]

\* variant: the loop stops one entry early
RECURSIVE blacklist_iter_skips_last(_, _, _)
blacklist_iter_skips_last(blacklist, i, name) ==
    IF i >= Len(blacklist) THEN 0
    ELSE IF name = blacklist[i] THEN i
    ELSE blacklist_iter_skips_last(blacklist, i + 1, name)

\* the for loop of BlacklistLauncher::launch: the index of the first entry
\* equal to name, 0 when the loop runs to its end
RECURSIVE blacklist_iter(_, _, _)
blacklist_iter(blacklist, i, name) ==
    IF i > Len(blacklist) THEN 0
    ELSE IF name = blacklist[i] THEN i
    ELSE blacklist_iter(blacklist, i + 1, name)

to_lowercase(s) == IF s = "Help" THEN "help" ELSE s

\* variant: names are compared without regard to case
RECURSIVE blacklist_iter_ignore_case(_, _, _)
blacklist_iter_ignore_case(blacklist, i, name) ==
    IF i > Len(blacklist) THEN 0
    ELSE IF to_lowercase(name) = to_lowercase(blacklist[i]) THEN i
    ELSE blacklist_iter_ignore_case(blacklist, i + 1, name)

BlacklistLauncher_launch_ignore_case(self, path, name, args, st) ==
    LET i == blacklist_iter_ignore_case(self.blacklist, 1, name)
    IN  IF i # 0
        THEN [res |-> Err(Blacklisted(self.blacklist[i])), st |-> st]
        ELSE launch(self.launcher, path \o <<1>>, name, args, st)

BlacklistLauncher_launch(self, path, name, args, st) ==
    LET i == blacklist_iter(self.blacklist, 1, name)
    IN  IF i # 0
        THEN [res |-> Err(Blacklisted(self.blacklist[i])), st |-> st]
        ELSE launch(self.launcher, path \o <<1>>, name, args, st)

\* variant: the loop does not return on the first Ok
RECURSIVE firsts_iter_no_return(_, _, _, _, _, _)
firsts_iter_no_return(firsts, i, path, name, args, st) ==
    IF i > Len(firsts) THEN [returned |-> FALSE, res |-> NoResult, st |-> st]
    ELSE LET r == launch(firsts[i], path \o <<i>>, name, args, st)
         IN  IF r.res.tag = "Panic"
             THEN [returned |-> TRUE, res |-> r.res, st |-> r.st]
             ELSE firsts_iter_no_return(firsts, i + 1, path, name, args, r.st)

\* the for loop of FallbackLauncher::launch over firsts, from index i on:
\* returned is TRUE when the loop left the function (an Ok, or a panic
\* unwinding through it)
RECURSIVE firsts_iter(_, _, _, _, _, _)
firsts_iter(firsts, i, path, name, args, st) ==
    IF i > Len(firsts) THEN [returned |-> FALSE, res |-> NoResult, st |-> st]
    ELSE LET r == launch(firsts[i], path \o <<i>>, name, args, st)
         IN  IF r.res.tag \in {"Ok", "Panic"}
             THEN [returned |-> TRUE, res |-> r.res, st |-> r.st]
             ELSE firsts_iter(firsts, i + 1, path, name, args, r.st)

\* variant: when every launcher fails the first error is returned
FallbackLauncher_launch_first_error(self, path, name, args, st) ==
    IF Len(self.launchers) = 0
    THEN [res |-> Panic("no launchers given to FallbackLauncher"), st |-> st]
    ELSE LET n == Len(self.launchers)
             last == self.launchers[n]
             firsts == SubSeq(self.launchers, 1, n - 1)
             first == launch(self.launchers[1], path \o <<1>>, name, args, st)
             f == firsts_iter(firsts, 1, path, name, args, st)
             l == launch(last, path \o <<n>>, name, args, f.st)
         IN  IF f.returned
             THEN [res |-> f.res, st |-> f.st]
             ELSE IF l.res.tag = "Err"
                  THEN [res |-> first.res, st |-> l.st]
                  ELSE l

\* variant: an empty launcher list is reported as an ordinary error
FallbackLauncher_launch_empty_err(self, path, name, args, st) ==
    IF Len(self.launchers) = 0
    THEN [res |-> Err(NotFound(name)), st |-> st]
    ELSE LET n == Len(self.launchers)
             last == self.launchers[n]
             firsts == SubSeq(self.launchers, 1, n - 1)
             f == firsts_iter(firsts, 1, path, name, args, st)
         IN  IF f.returned
             THEN [res |-> f.res, st |-> f.st]
             ELSE launch(last, path \o <<n>>, name, args, f.st)

FallbackLauncher_launch(self, path, name, args, st) ==
    IF Len(self.launchers) = 0
    THEN [res |-> Panic("no launchers given to FallbackLauncher"), st |-> st]
    ELSE LET n == Len(self.launchers)
             last == self.launchers[n]
             firsts == SubSeq(self.launchers, 1, n - 1)
             f == firsts_iter(firsts, 1, path, name, args, st)
         IN  IF f.returned
             THEN [res |-> f.res, st |-> f.st]
             ELSE launch(last, path \o <<n>>, name, args, f.st)

\* dynamic dispatch of RitLauncher::launch on a Box<dyn RitLauncher>
launch(self, path, name, args, st) ==
    LET called == [ev |-> "call", path |-> path, self |-> self,
                   name |-> name, args |-> args]
        st0 == [st EXCEPT !.log = Append(@, called)]
        r == CASE self.kind = "Proc" ->
                    ProcLauncher_launch(self, path, name, args, st0)
               [] self.kind = "Lib" ->
                    LibLauncher_launch(self, path, name, args, st0)
               [] self.kind = "Blacklist" ->
                    BlacklistLauncher_launch(self, path, name, args, st0)
               [] self.kind = "Fallback" ->
                    FallbackLauncher_launch(self, path, name, args, st0)
               [] self.kind = "Dummy" ->
                    DummyLauncher_launch(self, path, name, args, st0)
        returned == [ev |-> "ret", path |-> path, res |-> r.res]
    IN  IF r.res.tag = "Panic"
        THEN r
        ELSE [res |-> r.res, st |-> [r.st EXCEPT !.log = Append(@, returned)]]

\* variant: nothing is blacklisted
get_default_launcher_no_blacklist ==
    FallbackLauncher(<<BlacklistLauncher(ProcLauncher("git"), <<>>),
                       LibLauncher>>)

get_default_launcher ==
    FallbackLauncher(<<BlacklistLauncher(ProcLauncher("git"), <<"help">>),
                       LibLauncher>>)

----------------------------------------------------------------------------
(* The launchers a call is made on *)

Leaves ==
    {ProcLauncher(c) : c \in CmdNames}
        \cup {LibLauncher}
        \cup {DummyLauncher(a) : a \in {"Succeed", "Fail"}}

Blacklists == SeqsUpTo(Names, MaxBlacklist)

Wrapped ==
    Leaves \cup {FallbackLauncher(<<>>),
                 FallbackLauncher(<<DummyLauncher("Fail"), LibLauncher>>)}

BlacklistLaunchers ==
    {BlacklistLauncher(l, b) : l \in Wrapped, b \in Blacklists}

ChainElements ==
    {ProcLauncher("git"), LibLauncher,
     DummyLauncher("Succeed"), DummyLauncher("Fail"),
     BlacklistLauncher(ProcLauncher("git"), <<"help">>),
     BlacklistLauncher(DummyLauncher("Succeed"), <<"help">>),
     FallbackLauncher(<<>>)}

FallbackLaunchers ==
    {FallbackLauncher(ls) : ls \in SeqsUpTo(ChainElements, MaxLaunchers)}

Launchers ==
    Leaves \cup BlacklistLaunchers \cup FallbackLaunchers
        \cup {get_default_launcher}

\* number of ProcLaunchers in a launcher tree: no call spawns more often
RECURSIVE ProcCount(_)
RECURSIVE ProcCountSeq(_)
ProcCountSeq(ls) ==
    IF ls = <<>> THEN 0 ELSE ProcCount(Head(ls)) + ProcCountSeq(Tail(ls))

ProcCount(l) ==
    CASE l.kind = "Proc" -> 1
      [] l.kind = "Blacklist" -> ProcCount(l.launcher)
      [] l.kind = "Fallback" -> ProcCountSeq(l.launchers)
      [] OTHER -> 0

----------------------------------------------------------------------------
(* The state machine *)

Init ==
    /\ launcher \in Launchers
    /\ pc = "ready"
    /\ req = [name |-> "", args |-> <<>>]
    /\ result = NoResult
    /\ log = <<>>

\* one call of launch(name, args) on the constructed launcher
Call ==
    /\ pc = "ready"
    /\ \E name \in Names, args \in ArgLists,
          os \in [1..ProcCount(launcher) -> SpawnOutcomes] :
          LET r == launch(launcher, <<>>, name, args,
                          [log |-> <<>>, os |-> os])
          IN  /\ req' = [name |-> name, args |-> args]
              /\ result' = r.res
              /\ log' = r.st.log
    /\ pc' = "done"
    /\ UNCHANGED launcher

\* the call, by the type of the launcher it is made on
LaunchProc ==
    /\ launcher.kind = "Proc"
    /\ Call

LaunchLib ==
    /\ launcher.kind = "Lib"
    /\ Call

LaunchBlacklist ==
    /\ launcher.kind = "Blacklist"
    /\ Call

LaunchFallback ==
    /\ launcher.kind = "Fallback"
    /\ Call

LaunchDummy ==
    /\ launcher.kind = "Dummy"
    /\ Call

Next ==
    \/ LaunchProc
    \/ LaunchLib
    \/ LaunchBlacklist
    \/ LaunchFallback
    \/ LaunchDummy

Spec == Init /\ [][Next]_vars

---------------------------------------------------------------------------------------------------------------------------------------------------
(* Reading the log *)

Events(ev, path) ==
    {i \in 1..Len(log) : log[i].ev = ev /\ log[i].path = path}

Spawns == {i \in 1..Len(log) : log[i].ev = "spawn"}

Calls == {i \in 1..Len(log) : log[i].ev = "call"}

Entries(blacklist) == {blacklist[i] : i \in 1..Len(blacklist)}

Done(kind) == pc = "done" /\ launcher.kind = kind

TypeOK ==
    /\ launcher \in Launchers
    /\ pc \in {"ready", "done"}
    /\ result.tag \in {"None", "Ok", "Err", "Panic"}
    /\ pc = "ready" => result = NoResult /\ log = <<>>
    /\ pc = "done" => result # NoResult /\ Events("call", <<>>) = {1}

----------------------------------------------------------------------------
(* Properties *)

\* C1: a call of BlacklistLauncher.launch with a name that is an entry of
\* the blacklist returns Err(Blacklisted(name)), and during the call the
\* wrapped launcher is not invoked (nothing is dispatched below the
\* BlacklistLauncher and no process is spawned).
C1_BlacklistedIsRejected ==
    (Done("Blacklist") /\ req.name \in Entries(launcher.blacklist))
        => /\ result = Err(Blacklisted(req.name))
           /\ Events("call", <<1>>) = {}
           /\ Calls = {1}
           /\ Spawns = {}

C1_Witness ==
    /\ Done("Blacklist")
    /\ launcher.launcher = DummyLauncher("Succeed")
    /\ Len(launcher.blacklist) = 2
    /\ req.name = launcher.blacklist[2]
    /\ req.name # launcher.blacklist[1]
    /\ result.tag = "Err"

\* C2: a call of BlacklistLauncher.launch with a name that is not an entry
\* of the blacklist (compared exactly) invokes the wrapped launcher exactly
\* once, with the same name and args, and returns what it returned.
C2_OthersAreDelegated ==
    (Done("Blacklist") /\ req.name \notin Entries(launcher.blacklist))
        => /\ Events("call", <<1>>) = {2}
           /\ log[2].self = launcher.launcher
           /\ log[2].name = req.name
           /\ log[2].args = req.args
           /\ Cardinality(Events("ret", <<1>>)) <= 1
           /\ \A j \in Events("ret", <<1>>) : log[j].res = result
           /\ result.tag \in {"Ok", "Err"} => Events("ret", <<1>>) # {}

C2_Witness ==
    /\ Done("Blacklist")
    /\ launcher.blacklist = <<"help">>
    /\ req.name = "Help"
    /\ req.args = <<"-v">>
    /\ launcher.launcher.kind = "Proc"
    /\ result.tag = "Err"
    /\ result.err.variant = "BadExitCode"

\* C3: FallbackLauncher.launch over a non-empty list attempts the launchers
\* in list order, each at most once, launcher i only after every launcher
\* before it was attempted and failed; once a launcher returns Ok the chain
\* returns Ok and no later launcher is invoked.
C3_FallbackOrder ==
    (Done("Fallback") /\ Len(launcher.launchers) >= 1)
        => LET n == Len(launcher.launchers)
           IN  /\ Events("call", <<1>>) # {}
               /\ \A i \in 1..n : Cardinality(Events("call", <<i>>)) <= 1
               /\ \A i \in 2..n : \A c \in Events("call", <<i>>) :
                      \A k \in 1..(i - 1) :
                          /\ \E b \in Events("call", <<k>>) : b < c
                          /\ \E r \in Events("ret", <<k>>) :
                                 r < c /\ log[r].res.tag = "Err"
               /\ \A i \in 1..n : \A r \in Events("ret", <<i>>) :
                      log[r].res = Ok
                          => /\ result = Ok
                             /\ \A c \in Calls : c < r

C3_Witness ==
    /\ Done("Fallback")
    /\ Len(launcher.launchers) = 3
    /\ Events("call", <<1>>) # {}
    /\ Events("call", <<2>>) # {}
    /\ Events("call", <<3>>) = {}
    /\ \E r \in Events("ret", <<2>>) : log[r].res = Ok
    /\ result = Ok

\* C4: when the first N-1 launchers of a FallbackLauncher of N >= 1
\* launchers all fail, launch returns exactly what the last launcher
\* returned: Ok, or the last launcher's own error.
C4_LastResultSurfaces ==
    (/\ Done("Fallback")
     /\ Len(launcher.launchers) >= 1
     /\ \A k \in 1..(Len(launcher.launchers) - 1) :
            \E r \in Events("ret", <<k>>) : log[r].res.tag = "Err")
        => LET n == Len(launcher.launchers)
           IN  /\ Cardinality(Events("call", <<n>>)) = 1
               /\ Cardinality(Events("ret", <<n>>)) <= 1
               /\ \A r \in Events("ret", <<n>>) : log[r].res = result
               /\ result.tag \in {"Ok", "Err"} => Events("ret", <<n>>) # {}

C4_Witness ==
    /\ Done("Fallback")
    /\ Len(launcher.launchers) = 3
    /\ result.tag = "Err"
    /\ \E a \in Events("ret", <<1>>), b \in Events("ret", <<2>>),
          c \in Events("ret", <<3>>) :
          /\ log[a].res.tag = "Err"
          /\ log[b].res.tag = "Err"
          /\ log[c].res = result
          /\ log[a].res # result
          /\ log[b].res # result

\* C5: with the default chain and a name that is not blacklisted, the
\* result of launch mirrors the exit status of the child: Ok when it exits
\* with code 0, an error otherwise.
C5_DefaultMirrorsExitStatus ==
    (/\ pc = "done"
     /\ launcher = get_default_launcher
     /\ req.name # "help")
        => \A s \in Spawns :
               log[s].out.ok
                   => /\ code(log[s].out.status) = Some(0) => result = Ok
                      /\ code(log[s].out.status) # Some(0)
                             => result.tag = "Err"

\* C6: with the default chain, launch("help", args) returns Ok and the
\* ProcLauncher is not invoked: the blacklist rejects the name, the chain
\* falls back to the LibLauncher, the Blacklisted error does not surface.
C6_DefaultHelp ==
    (/\ pc = "done"
     /\ launcher = get_default_launcher
     /\ req.name = "help")
        => /\ result = Ok
           /\ Spawns = {}
           /\ \A c \in Calls : log[c].self.kind # "Proc"
           /\ \E r \in Events("ret", <<1>>) :
                  log[r].res = Err(Blacklisted("help"))
           /\ \E c \in Events("call", <<2>>) : log[c].self = LibLauncher

C6_Witness ==
    /\ pc = "done"
    /\ launcher = get_default_launcher
    /\ req.name = "help"
    /\ req.args = <<"-v">>
    /\ result = Ok

\* C7: ProcLauncher.launch maps the outcome of spawning the base command to
\* one result: exit code 0 to Ok; another exit code or a signal to
\* BadExitCode(name, status); a missing binary to NotFound(name); any other
\* spawn failure to the I/O error itself.  Nothing else yields Ok.
C7_ProcOutcome ==
    Done("Proc")
        => /\ Cardinality(Spawns) = 1
           /\ \A s \in Spawns :
                  LET out == log[s].out
                  IN  /\ (out.ok /\ out.status = Exited(0)) => result = Ok
                      /\ (out.ok /\ out.status # Exited(0))
                             => result = Err(BadExitCode(req.name, out.status))
                      /\ (~out.ok /\ out.kind = "NotFound")
                             => result = Err(NotFound(req.name))
                      /\ (~out.ok /\ out.kind # "NotFound")
                             => result = Err(IoError(out.kind))
                      /\ result = Ok => (out.ok /\ out.status = Exited(0))

C7_Witness ==
    /\ Done("Proc")
    /\ \E s \in Spawns : log[s].out.ok /\ log[s].out.status.signaled
    /\ result.tag = "Err"
    /\ result.err.variant = "BadExitCode"

\* C8: launch on a FallbackLauncher whose launcher list is empty does not
\* return a Result: it panics, and no launcher is invoked by it.  The panic
\* ends the whole dispatch.
C8_EmptyChainPanics ==
    \A c \in Calls :
        (log[c].self.kind = "Fallback" /\ log[c].self.launchers = <<>>)
            => /\ result.tag = "Panic"
               /\ c = Len(log)
               /\ Events("ret", log[c].path) = {}

C8_Witness ==
    /\ pc = "done"
    /\ launcher = FallbackLauncher(<<>>)
    /\ result.tag = "Panic"
    /\ Len(log) = 1

C10_LibFailsOnNonexistent ==
    (Done("Lib") /\ req.name = "this-shouldnt-exist") => result.tag = "Err"

====
